---- MODULE Spec2Model ----
(***************************************************************************)
(* A model of the Mafia game server of src/server.js: the room registry,   *)
(* the socket handlers and the chain of setTimeout callbacks started by    *)
(* startNightFlow.                                                         *)
(*                                                                         *)
(* Abstractions (all stated here, none silent):                            *)
(*  - genCode() returns a code that was never used before (a collision of  *)
(*    two random codes is not modelled).                                   *)
(*  - socket ids are opaque strings; a connection uses one username.       *)
(*  - setTimeout callbacks are kept per room in their firing order; a new  *)
(*    30 s timer fires after every pending 30 s timer and before or after  *)
(*    a pending 120 s timer, a new 120 s timer fires after every pending   *)
(*    timer.                                                               *)
(*  - room._phaseTimer is only ever written by the source                  *)
(*    (resetPhaseTimers is never called), so the handle is not kept.       *)
(*  - out holds the messages emitted by the last handler or callback, and  *)
(*    ended the rooms for which gameEnd has been broadcast.                *)
(*  - objs keeps every room object ever created: a room deleted from the   *)
(*    registry is still the object the pending callbacks hold.             *)
(*  - room.votes and the tally's counts are objects whose keys are socket   *)
(*    ids: they are kept as sequences in the order the keys were first     *)
(*    written (ids that look like array indices are not modelled).         *)
(***************************************************************************)
EXTENDS Naturals, Integers, Sequences, FiniteSets, TLC

VARIABLES rooms,      \* the registry: the codes c with rooms[c] defined
          objs,       \* every room object created so far, by its code
          timers,     \* per room code, the pending setTimeout callbacks in firing order
          connected,  \* the socket ids of the open connections
          out,        \* the messages emitted by the last step, in order
          ended       \* the room codes for which gameEnd has been emitted

vars == <<rooms, objs, timers, connected, out, ended>>

------------------------------------------------------------------------------
(* Bounds of the model *)

\* at most this many setTimeout callbacks are pending for one room
MaxTimers == 2

\* the clients of SpecJoin stop joining a room of this many players
MaxRoster == 4

------------------------------------------------------------------------------
(* Program constants *)

DEFAULTS_mafiaCount == 1
DEFAULTS_minPlayers == 4
DEFAULTS_maxPlayers == 12

NULL == "null"
UNDEFINED == "undefined"

\* the codes genCode() returns, in the order it returns them
CodeSeq == <<"R1">>
Codes == {CodeSeq[i] : i \in DOMAIN CodeSeq}
Sockets == {"s1", "s2", "s3", "s4", "s5"}
\* a target id that names no connection
Ghost == "zz"

SockIdx(s) ==
  CASE s = "s1" -> 1 [] s = "s2" -> 2 [] s = "s3" -> 3 [] s = "s4" -> 4 [] OTHER -> 5

\* the username a connection submits
UserName(s) ==
  CASE s = "s1" -> "ann" [] s = "s2" -> "bob" [] s = "s3" -> "cat"
    [] s = "s4" -> "dan" [] OTHER -> "eve"

Stages == {"mafia", "medic", "detective", "day"}

------------------------------------------------------------------------------
(* Helpers on sequences *)

Ids(players) == {players[i].id : i \in DOMAIN players}

\* Array.prototype.findIndex / find: the first index with the id, 0 when none
FindIdx(players, id) ==
  IF \E i \in DOMAIN players : players[i].id = id
  THEN CHOOSE i \in DOMAIN players :
         /\ players[i].id = id
         /\ \A j \in DOMAIN players : players[j].id = id => i <= j
  ELSE 0

\* Array.prototype.splice(idx, 1)
Splice(seq, idx) == [i \in 1..(Len(seq) - 1) |-> IF i < idx THEN seq[i] ELSE seq[i + 1]]

\* Array.prototype.filter
RECURSIVE FilterAlive(_)
FilterAlive(players) ==
  IF players = <<>> THEN <<>>
  ELSE IF Head(players).alive
       THEN <<Head(players)>> \o FilterAlive(Tail(players))
       ELSE FilterAlive(Tail(players))

RECURSIVE CountRole(_, _)
CountRole(players, role) ==
  IF players = <<>> THEN 0
  ELSE (IF Head(players).role = role THEN 1 ELSE 0) + CountRole(Tail(players), role)

------------------------------------------------------------------------------
(* Messages *)

Msg(ev, to, data) == [ev |-> ev, to |-> to, data |-> data]

\* io.to(x).emit: x is a room code (every connected socket that joined it) or a
\* socket id (that socket, when still connected); rcpt records who receives it
Stamp(msgs, players, conn) ==
  [i \in DOMAIN msgs |->
     [ev |-> msgs[i].ev, to |-> msgs[i].to, data |-> msgs[i].data,
      rcpt |-> IF msgs[i].to \in Codes THEN Ids(players) \cap conn
               ELSE {msgs[i].to} \cap conn]]

LobbyState(room) ==
  Msg("lobbyState", room.code, [code |-> room.code, host |-> room.host, players |-> room.players])

broadcastLobby(room) == <<LobbyState(room)>>

------------------------------------------------------------------------------
(* assignRoles *)

\* the choices j of the Fisher-Yates loop, one for each i = N-1 .. 1 (0-based),
\* written 1-based: js[i] \in 1..i for i \in 2..N
ShuffleChoices(n) == {js \in [2..n -> 1..n] : \A i \in 2..n : js[i] <= i}

Swap(seq, i, j) == [seq EXCEPT ![i] = seq[j], ![j] = seq[i]]

RECURSIVE ShuffleFrom(_, _, _)
ShuffleFrom(seq, js, i) ==
  IF i < 2 THEN seq ELSE ShuffleFrom(Swap(seq, i, js[i]), js, i - 1)

Shuffle(players, js) == ShuffleFrom(players, js, Len(players))

\* a faulty variant of RoleAtPos: the mafia loop stops one player early
RoleAtPos_OneMafiaShort(idx, mafiaCount, n) ==
  LET m == IF mafiaCount - 1 < n THEN mafiaCount - 1 ELSE n
  IN  IF idx <= m THEN "mafia"
      ELSE IF idx = m + 1 THEN "medic"
      ELSE IF idx = m + 2 THEN "detective"
      ELSE "villager"

\* the role written at position idx (1-based) of the shuffled list
RoleAtPos(idx, mafiaCount, n) ==
  LET m == IF mafiaCount < n THEN mafiaCount ELSE n
  IN  IF idx <= m THEN "mafia"
      ELSE IF idx = m + 1 THEN "medic"
      ELSE IF idx = m + 2 THEN "detective"
      ELSE "villager"

\* roles[id]: the object is written in increasing idx, the last write stays
RolesMap(shuffled, mafiaCount) ==
  [id \in Ids(shuffled) |->
     LET last == CHOOSE i \in DOMAIN shuffled :
                   /\ shuffled[i].id = id
                   /\ \A j \in DOMAIN shuffled : shuffled[j].id = id => j <= i
     IN  RoleAtPos(last, mafiaCount, Len(shuffled))]

assignRoles(room, js) ==
  LET roles == RolesMap(Shuffle(room.players, js), room.mafiaCount)
  IN  [room EXCEPT !.players =
         [i \in DOMAIN room.players |->
            [room.players[i] EXCEPT !.role = roles[room.players[i].id], !.alive = TRUE]]]

------------------------------------------------------------------------------
(* checkWin *)

alivePlayers(room) == FilterAlive(room.players)

\* a faulty variant of checkWin: the mafia need a strict majority
checkWin_StrictMajority(room) ==
  LET alive == alivePlayers(room)
      mafiaAlive == CountRole(alive, "mafia")
      others == Len(alive) - mafiaAlive
  IN  IF mafiaAlive = 0 THEN [over |-> TRUE, winner |-> "town"]
      ELSE IF mafiaAlive > others THEN [over |-> TRUE, winner |-> "mafia"]
      ELSE [over |-> FALSE, winner |-> NULL]

checkWin(room) ==
  LET alive == alivePlayers(room)
      mafiaAlive == CountRole(alive, "mafia")
      others == Len(alive) - mafiaAlive
  IN  IF mafiaAlive = 0 THEN [over |-> TRUE, winner |-> "town"]
      ELSE IF mafiaAlive >= others THEN [over |-> TRUE, winner |-> "mafia"]
      ELSE [over |-> FALSE, winner |-> NULL]

------------------------------------------------------------------------------
(* The timer queue *)

IsNight(st) == st \in {"mafia", "medic", "detective"}

\* setTimeout(f, 30000): after every pending 30 s timer, before or after the
\* pending 120 s timers
InsertNight(ts, st) ==
  LET lastNight == IF \E i \in DOMAIN ts : IsNight(ts[i])
                   THEN CHOOSE i \in DOMAIN ts :
                          IsNight(ts[i]) /\ \A j \in DOMAIN ts : IsNight(ts[j]) => j <= i
                   ELSE 0
  IN  {SubSeq(ts, 1, p) \o <<st>> \o SubSeq(ts, p + 1, Len(ts)) : p \in lastNight..Len(ts)}

\* setTimeout(f, 120000): after every pending timer
InsertDay(ts) == Append(ts, "day")

\* the connections with a smaller id are players of the room or gone: the ids
\* are opaque, so the k-th connection to enter a room is taken to be the k-th id
Canonical(s, ids) ==
  \A s2 \in connected : SockIdx(s2) < SockIdx(s) => s2 \in ids

------------------------------------------------------------------------------
(* socket.on('createRoom') *)

genCode ==
  CodeSeq[CHOOSE i \in DOMAIN CodeSeq :
            /\ CodeSeq[i] \notin DOMAIN objs
            /\ \A j \in DOMAIN CodeSeq : CodeSeq[j] \notin DOMAIN objs => i <= j]

NewPlayer(s) == [id |-> s, name |-> UserName(s), alive |-> TRUE, role |-> NULL]

CreateRoom(s, mafiaCount) ==
  /\ s \in connected
  /\ Codes \ DOMAIN objs # {}
  /\ LET code == genCode
         room == [code |-> code, host |-> s, players |-> <<NewPlayer(s)>>,
                  mafiaCount |-> IF mafiaCount = 0 THEN DEFAULTS_mafiaCount ELSE mafiaCount,
                  phase |-> "lobby", mafiaTarget |-> NULL, medicSave |-> NULL,
                  detectiveTarget |-> NULL, votes |-> <<>>]
     IN  /\ rooms' = rooms \cup {code}
         /\ objs' = [c \in DOMAIN objs \cup {code} |-> IF c = code THEN room ELSE objs[c]]
         /\ out' = Stamp(<<Msg("roomCreated", s,
                               [roomCode |-> code, players |-> room.players, host |-> s])>>
                         \o broadcastLobby(room), room.players, connected)
  /\ UNCHANGED <<timers, connected, ended>>

(* socket.on('joinRoom') *)
JoinRoom(s, roomCode) ==
  /\ s \in connected
  /\ IF roomCode \notin rooms
     THEN /\ out' = Stamp(<<Msg("errorMessage", s, "Invalid room code.")>>, <<>>, connected)
          /\ UNCHANGED <<rooms, objs, timers, connected, ended>>
     ELSE LET room == objs[roomCode] IN
          IF Len(room.players) >= DEFAULTS_maxPlayers
          THEN /\ out' = Stamp(<<Msg("errorMessage", s, "Room full")>>, <<>>, connected)
               /\ UNCHANGED <<rooms, objs, timers, connected, ended>>
          ELSE /\ LET room2 == [room EXCEPT !.players = Append(@, NewPlayer(s))]
                  IN  /\ objs' = [objs EXCEPT ![roomCode] = room2]
                      /\ out' = Stamp(<<Msg("updatePlayers", roomCode,
                                            [code |-> room2.code, host |-> room2.host,
                                             players |-> room2.players])>>
                                      \o broadcastLobby(room2)
                                      \o <<Msg("joinedRoom", s,
                                               [roomCode |-> room2.code, players |-> room2.players])>>,
                                      room2.players, connected)
               /\ UNCHANGED <<rooms, timers, connected, ended>>

(* socket.on('requestLobby') *)
RequestLobby(s, code) ==
  /\ s \in connected
  /\ out' = IF code \in rooms
            THEN Stamp(<<Msg("lobbyState", s,
                             [code |-> objs[code].code, host |-> objs[code].host,
                              players |-> objs[code].players])>>, <<>>, connected)
            ELSE <<>>
  /\ UNCHANGED <<rooms, objs, timers, connected, ended>>

------------------------------------------------------------------------------
(* startNightFlow: the part that runs at once *)

\* "Reset interim choices"
startNightFlow(room) ==
  [room EXCEPT !.mafiaTarget = NULL, !.medicSave = NULL, !.detectiveTarget = NULL,
               !.votes = <<>>]

\* the delays of the setTimeout calls, in ms
NIGHT_TIMEOUT == 30000
DAY_TIMEOUT == 120000

\* phaseMessage { phase: 'mafia_done' } and the like
PhaseMessage(room, phase) == Msg("phaseMessage", room.code, [phase |-> phase])

\* phaseMessage { phase, timeout }: the announcement of a phase
PhaseStart(room, phase) ==
  Msg("phaseMessage", room.code,
      [phase |-> phase, timeout |-> IF phase = "day" THEN DAY_TIMEOUT ELSE NIGHT_TIMEOUT])

(* socket.on('startGame') *)
YourRoles(players) ==
  [i \in DOMAIN players |-> Msg("yourRole", players[i].id, [role |-> players[i].role])]

StartGame(s, roomCode) ==
  /\ s \in connected
  /\ IF roomCode \notin rooms
     THEN out' = <<>> /\ UNCHANGED <<rooms, objs, timers, connected, ended>>
     ELSE LET room == objs[roomCode] IN
          IF room.host # s
          THEN out' = <<>> /\ UNCHANGED <<rooms, objs, timers, connected, ended>>
          ELSE IF Len(room.players) < DEFAULTS_minPlayers
          THEN /\ out' = Stamp(<<Msg("errorMessage", s, "Not enough players to start.")>>,
                               <<>>, connected)
               /\ UNCHANGED <<rooms, objs, timers, connected, ended>>
          ELSE /\ \E js \in ShuffleChoices(Len(room.players)) :
                    LET room2 == [assignRoles(room, js) EXCEPT !.phase = "night"]
                        room3 == startNightFlow(room2)
                    IN  /\ objs' = [objs EXCEPT ![roomCode] = room3]
                        /\ out' = Stamp(broadcastLobby(room2) \o YourRoles(room2.players)
                                        \o <<PhaseStart(room3, "mafia")>>,
                                        room3.players, connected)
               /\ \E ts \in InsertNight(timers[roomCode], "mafia") :
                    timers' = [timers EXCEPT ![roomCode] = ts]
               /\ UNCHANGED <<rooms, connected, ended>>

------------------------------------------------------------------------------
(* The night choices, the vote and the chat *)

\* a faulty variant of RoleOf: a connection that is no player of the room
\* passes for a mafia
RoleOf_StrangerIsMafia(room, id) ==
  IF FindIdx(room.players, id) = 0 THEN "mafia"
  ELSE room.players[FindIdx(room.players, id)].role

\* room.players.find(p => p.id === socket.id)?.role
RoleOf(room, id) ==
  IF FindIdx(room.players, id) = 0 THEN UNDEFINED
  ELSE room.players[FindIdx(room.players, id)].role

NoOp == out' = <<>> /\ UNCHANGED <<rooms, objs, timers, connected, ended>>

(* socket.on('mafiaChoose') *)
MafiaChoose(s, roomCode, targetId) ==
  /\ s \in connected
  /\ IF roomCode \notin rooms THEN NoOp
     ELSE IF RoleOf(objs[roomCode], s) # "mafia" THEN NoOp
     ELSE /\ objs' = [objs EXCEPT ![roomCode].mafiaTarget = targetId]
          /\ out' = Stamp(<<PhaseMessage(objs[roomCode], "mafia_done")>>,
                          objs[roomCode].players, connected)
          /\ UNCHANGED <<rooms, timers, connected, ended>>

(* socket.on('medicChoose') *)
MedicChoose(s, roomCode, targetId) ==
  /\ s \in connected
  /\ IF roomCode \notin rooms THEN NoOp
     ELSE IF RoleOf(objs[roomCode], s) # "medic" THEN NoOp
     ELSE /\ objs' = [objs EXCEPT ![roomCode].medicSave = targetId]
          /\ out' = Stamp(<<PhaseMessage(objs[roomCode], "medic_done")>>,
                          objs[roomCode].players, connected)
          /\ UNCHANGED <<rooms, timers, connected, ended>>

(* socket.on('detectiveChoose') *)
DetectiveChoose(s, roomCode, targetId) ==
  /\ s \in connected
  /\ IF roomCode \notin rooms THEN NoOp
     ELSE IF RoleOf(objs[roomCode], s) # "detective" THEN NoOp
     ELSE /\ objs' = [objs EXCEPT ![roomCode].detectiveTarget = targetId]
          /\ out' = Stamp(<<Msg("detectiveResult", s,
                                [targetId |-> targetId,
                                 isMafia |-> RoleOf(objs[roomCode], targetId) = "mafia"]),
                            PhaseMessage(objs[roomCode], "detective_done")>>,
                          objs[roomCode].players, connected)
          /\ UNCHANGED <<rooms, timers, connected, ended>>

\* room.votes[voter] = targetId on an object whose keys keep their insertion order
SetVote(votes, voter, targetId) ==
  IF \E i \in DOMAIN votes : votes[i].voter = voter
  THEN [i \in DOMAIN votes |->
          IF votes[i].voter = voter THEN [voter |-> voter, target |-> targetId] ELSE votes[i]]
  ELSE Append(votes, [voter |-> voter, target |-> targetId])

(* socket.on('vote') *)
Vote(s, roomCode, targetId) ==
  /\ s \in connected
  /\ IF roomCode \notin rooms THEN NoOp
     ELSE LET room2 == [objs[roomCode] EXCEPT !.votes = SetVote(@, s, targetId)]
          IN  /\ objs' = [objs EXCEPT ![roomCode] = room2]
              /\ out' = Stamp(<<Msg("voteUpdate", roomCode, [votes |-> room2.votes])>>,
                              room2.players, connected)
              /\ UNCHANGED <<rooms, timers, connected, ended>>

(* socket.on('chatMessage') *)
ChatMessage(s, roomCode) ==
  /\ s \in connected
  /\ IF roomCode \notin rooms THEN NoOp
     ELSE LET room == objs[roomCode]
              idx == FindIdx(room.players, s)
          IN  /\ out' = Stamp(<<Msg("chatMessage", roomCode,
                                    [from |-> IF idx # 0 THEN room.players[idx].name ELSE "anon",
                                     text |-> "hi"])>>,
                              room.players, connected)
              /\ UNCHANGED <<rooms, objs, timers, connected, ended>>

------------------------------------------------------------------------------
(* socket.on('disconnect') *)

\* a faulty variant of DisconnectRoom: the host is not replaced
DisconnectRoom_NoTransfer(room, s, conn) ==
  LET idx == FindIdx(room.players, s)
      players2 == IF idx # 0 THEN Splice(room.players, idx) ELSE room.players
      msgs == IF idx # 0
              THEN <<Msg("updatePlayers", room.code,
                         [code |-> room.code, host |-> room.host, players |-> players2])>>
              ELSE <<>>
  IN  [room |-> [room EXCEPT !.players = players2],
       out |-> Stamp(msgs, players2, conn),
       deleted |-> room.host = s /\ Len(players2) = 0]

\* the body of the for loop, for one room of the registry
DisconnectRoom(room, s, conn) ==
  LET idx == FindIdx(room.players, s)
      players2 == IF idx # 0 THEN Splice(room.players, idx) ELSE room.players
      msgs == IF idx # 0
              THEN <<Msg("updatePlayers", room.code,
                         [code |-> room.code, host |-> room.host, players |-> players2])>>
              ELSE <<>>
      host2 == IF room.host = s /\ Len(players2) > 0 THEN players2[1].id ELSE room.host
  IN  [room |-> [room EXCEPT !.players = players2, !.host = host2],
       out |-> Stamp(msgs, players2, conn),
       deleted |-> room.host = s /\ Len(players2) = 0]

RECURSIVE DisconnectOut(_, _, _)
DisconnectOut(k, s, conn) ==
  IF k = 0 THEN <<>>
  ELSE DisconnectOut(k - 1, s, conn)
       \o (IF CodeSeq[k] \in rooms THEN DisconnectRoom(objs[CodeSeq[k]], s, conn).out ELSE <<>>)

Disconnect(s) ==
  /\ s \in connected
  /\ connected' = connected \ {s}
  /\ LET conn == connected \ {s}
         rooms2 == {c \in rooms : ~DisconnectRoom(objs[c], s, conn).deleted}
         objs2 == [c \in DOMAIN objs |->
                     IF c \in rooms THEN DisconnectRoom(objs[c], s, conn).room ELSE objs[c]]
     IN  /\ rooms' = rooms2
         /\ objs' = objs2
         /\ out' = DisconnectOut(Len(CodeSeq), s, conn)
  /\ UNCHANGED <<timers, ended>>

------------------------------------------------------------------------------
(* The setTimeout callbacks of startNightFlow *)

Pending(c, st) == timers[c] # <<>> /\ Head(timers[c]) = st

\* a faulty variant of Candidates: every alive player is a candidate
Candidates_AnyAlive(room) == {i \in DOMAIN room.players : room.players[i].alive}

\* room.players.filter(p => p.alive && p.role !== 'mafia'), as positions
Candidates(room) ==
  {i \in DOMAIN room.players : room.players[i].alive /\ room.players[i].role # "mafia"}

\* the 30 s callback of the mafia phase
FireMafia(c) ==
  /\ Pending(c, "mafia")
  /\ LET room == objs[c]
         candidates == Candidates(room)
     IN  /\ \E room2 \in (IF room.mafiaTarget = NULL /\ candidates # {}
                          THEN {[room EXCEPT !.mafiaTarget = room.players[i].id] : i \in candidates}
                          ELSE {room}) :
                /\ objs' = [objs EXCEPT ![c] = room2]
                /\ out' = Stamp(<<PhaseStart(room2, "medic")>>, room2.players, connected)
         /\ \E ts \in InsertNight(Tail(timers[c]), "medic") :
                timers' = [timers EXCEPT ![c] = ts]
  /\ UNCHANGED <<rooms, connected, ended>>

\* the 30 s callback of the medic phase
FireMedic(c) ==
  /\ Pending(c, "medic")
  /\ out' = Stamp(<<PhaseStart(objs[c], "detective")>>, objs[c].players, connected)
  /\ \E ts \in InsertNight(Tail(timers[c]), "detective") :
         timers' = [timers EXCEPT ![c] = ts]
  /\ UNCHANGED <<rooms, objs, connected, ended>>

\* reveal[p.id] = { name, role }, written in the order of room.players
Reveal(players) ==
  [id \in Ids(players) |->
     LET last == CHOOSE i \in DOMAIN players :
                   /\ players[i].id = id
                   /\ \A j \in DOMAIN players : players[j].id = id => j <= i
     IN  [name |-> players[last].name, role |-> players[last].role]]

GameEnd(room, winner) ==
  Msg("gameEnd", room.code, [winner |-> winner, reveal |-> Reveal(room.players)])

\* victim.alive = false for the first player with the id, when there is one
Kill(players, id) ==
  IF FindIdx(players, id) = 0 THEN players
  ELSE [players EXCEPT ![FindIdx(players, id)].alive = FALSE]

NameOf(players, id) ==
  IF FindIdx(players, id) = 0 THEN UNDEFINED ELSE players[FindIdx(players, id)].name

\* a faulty variant of MedicSaved: any recorded save negates the kill
MedicSaved_AnySave(room) == room.medicSave # NULL /\ room.mafiaTarget # NULL

\* (room.medicSave && killedId && room.medicSave === killedId) ? true : false
MedicSaved(room) ==
  room.medicSave # NULL /\ room.mafiaTarget # NULL /\ room.medicSave = room.mafiaTarget

\* the 30 s callback of the detective phase: the night is processed
FireDetective(c) ==
  /\ Pending(c, "detective")
  /\ LET room == objs[c]
         killedId == room.mafiaTarget
         medicSaved == MedicSaved(room)
         kills == killedId # NULL /\ ~medicSaved
         room2 == IF kills THEN [room EXCEPT !.players = Kill(@, killedId)] ELSE room
         killedName == IF killedId # NULL THEN NameOf(room2.players, killedId) ELSE NULL
         msgs == <<Msg("nightResult", room.code,
                       [killedId |-> IF kills THEN killedId ELSE NULL,
                        medicSaved |-> medicSaved, killedName |-> killedName])>>
                 \o (IF kills THEN <<Msg("playerKilled", killedId, [you |-> TRUE])>> ELSE <<>>)
         res == checkWin(room2)
     IN  IF res.over
         THEN /\ rooms' = rooms \ {c}
              /\ timers' = [timers EXCEPT ![c] = Tail(@)]
              /\ objs' = [objs EXCEPT ![c] = room2]
              /\ out' = Stamp(msgs \o <<GameEnd(room2, res.winner)>>, room2.players, connected)
              /\ ended' = ended \cup {c}
         ELSE LET room3 == [room2 EXCEPT !.phase = "day", !.votes = <<>>]
              IN  /\ objs' = [objs EXCEPT ![c] = room3]
                  /\ timers' = [timers EXCEPT ![c] = InsertDay(Tail(@))]
                  /\ out' = Stamp(msgs \o <<PhaseStart(room3, "day")>>, room3.players, connected)
                  /\ UNCHANGED <<rooms, ended>>
  /\ UNCHANGED connected

------------------------------------------------------------------------------
(* The vote tally of the day callback *)

\* counts[t] = (counts[t] || 0) + 1 for the ballots in the key order of room.votes;
\* counts keeps its keys in the order they were first written
RECURSIVE TallyCounts(_, _)
TallyCounts(votes, k) ==
  IF k = 0 THEN <<>>
  ELSE LET counts == TallyCounts(votes, k - 1)
           t == votes[k].target
       IN  IF t = NULL THEN counts
           ELSE IF \E i \in DOMAIN counts : counts[i].id = t
           THEN [i \in DOMAIN counts |->
                   IF counts[i].id = t THEN [id |-> t, n |-> counts[i].n + 1] ELSE counts[i]]
           ELSE Append(counts, [id |-> t, n |-> 1])

\* a faulty variant of Highest: a later target with an equal count replaces
\* the earlier one
RECURSIVE Highest_LastTied(_, _)
Highest_LastTied(counts, k) ==
  IF k = 0 THEN [lynched |-> NULL, max |-> 0]
  ELSE LET h == Highest_LastTied(counts, k - 1)
       IN  IF counts[k].n >= h.max THEN [lynched |-> counts[k].id, max |-> counts[k].n] ELSE h

\* for(const id in counts){ if(counts[id] > max){ max = counts[id]; lynched = id; } }
RECURSIVE Highest(_, _)
Highest(counts, k) ==
  IF k = 0 THEN [lynched |-> NULL, max |-> 0]
  ELSE LET h == Highest(counts, k - 1)
       IN  IF counts[k].n > h.max THEN [lynched |-> counts[k].id, max |-> counts[k].n] ELSE h

\* a faulty variant of VoteTally: the target of the first ballot is taken
VoteTally_FirstBallot(votes) == IF votes = <<>> THEN NULL ELSE votes[1].target

VoteTally(votes) ==
  LET counts == TallyCounts(votes, Len(votes))
  IN  Highest(counts, Len(counts)).lynched

\* the 120 s callback of the day phase
FireDay(c) ==
  /\ Pending(c, "day")
  /\ LET room == objs[c]
         lynched == VoteTally(room.votes)
         found == lynched # NULL /\ FindIdx(room.players, lynched) # 0
         room2 == IF found THEN [room EXCEPT !.players = Kill(@, lynched)] ELSE room
         msgs == IF lynched # NULL
                 THEN (IF found
                       THEN <<Msg("voteResult", room.code,
                                  [lynched |-> TRUE, reveal |-> NameOf(room.players, lynched)])>>
                       ELSE <<>>)
                 ELSE <<Msg("voteResult", room.code, [lynched |-> FALSE])>>
         res2 == checkWin(room2)
     IN  IF res2.over
         THEN /\ rooms' = rooms \ {c}
              /\ timers' = [timers EXCEPT ![c] = Tail(@)]
              /\ objs' = [objs EXCEPT ![c] = room2]
              /\ out' = Stamp(msgs \o <<GameEnd(room2, res2.winner)>>, room2.players, connected)
              /\ ended' = ended \cup {c}
         ELSE LET room3 == startNightFlow(room2)
              IN  /\ objs' = [objs EXCEPT ![c] = room3]
                  /\ \E ts \in InsertNight(Tail(timers[c]), "mafia") :
                         timers' = [timers EXCEPT ![c] = ts]
                  /\ out' = Stamp(msgs \o <<PhaseStart(room3, "mafia")>>, room3.players, connected)
                  /\ UNCHANGED <<rooms, ended>>
  /\ UNCHANGED connected

------------------------------------------------------------------------------
(* The environment: which connections exist and what the clients submit *)

Clients == {"s1", "s2", "s3", "s4"}
MafiaCounts == {0, 1, 3}

\* a connection enters a room once, and the connections enter in the order of
\* their ids
FirstEntry(s, c) ==
  c \in rooms => (s \notin Ids(objs[c].players) /\ Canonical(s, Ids(objs[c].players)))

\* the host may send startGame again while fewer than MaxTimers callbacks pend
MayStart(c) == Len(timers[c]) < MaxTimers

Init ==
  /\ rooms = {}
  /\ objs = <<>>
  /\ timers = [c \in Codes |-> <<>>]
  /\ connected = Clients
  /\ out = <<>>
  /\ ended = {}

Fire(c) == FireMafia(c) \/ FireMedic(c) \/ FireDetective(c) \/ FireDay(c)

(* The life of a room: creation, joins, starts (also repeated), disconnects *)
(* and the timer callbacks.                                                *)
Next ==
  \/ \E s \in Clients, m \in MafiaCounts : Canonical(s, {}) /\ CreateRoom(s, m)
  \/ \E s \in Clients, c \in Codes : FirstEntry(s, c) /\ JoinRoom(s, c)
  \/ \E s \in Clients, c \in Codes : RequestLobby(s, c)
  \/ \E s \in Clients, c \in Codes : MayStart(c) /\ StartGame(s, c)
  \/ \E s \in Clients : Disconnect(s)
  \/ \E c \in Codes : FireMafia(c)
  \/ \E c \in Codes : FireMedic(c)
  \/ \E c \in Codes : FireDetective(c)
  \/ \E c \in Codes : FireDay(c)

Spec == Init /\ [][Next]_vars

------------------------------------------------------------------------------
(* Claims checked under Spec *)

AllTargets == Sockets \cup {NULL, Ghost}

\* the room was created and is no longer in the registry
Destroyed(c) == c \in DOMAIN objs /\ c \notin rooms

TimerBroadcasts == {"phaseMessage", "nightResult", "voteResult", "gameEnd"}

\* C1: once a room has left the registry, no timer callback changes the room's
\* data any more, and none of phaseMessage, nightResult, voteResult and gameEnd
\* is sent to the room any more.
C1_DestroyedRoomStaysQuiet ==
  [][\A c \in Codes :
       Destroyed(c) =>
         /\ objs'[c] = objs[c]
         /\ \A i \in DOMAIN out' : ~(out'[i].to = c /\ out'[i].ev \in TimerBroadcasts)]_vars

\* C2: in every reachable state a room has at most one scheduled phase timer
\* that has not fired yet.
C2_AtMostOneTimer == \A c \in Codes : Len(timers[c]) <= 1

NextStage(st) ==
  CASE st = "mafia" -> "medic" [] st = "medic" -> "detective"
    [] st = "detective" -> "day" [] OTHER -> "mafia"

\* C3: the pending phase timer of a room changes only in the order of the
\* phases: from none to NightMafia by startGame in the lobby, from the one
\* pending timer to that of the next phase when it fires, or from the pending
\* detective or day timer to none when the resolve ends the game; nothing else
\* changes it.
C3_PhaseOrder ==
  [][\A c \in Codes :
       timers'[c] # timers[c] =>
         \/ /\ timers[c] = <<>>
            /\ c \in rooms /\ objs[c].phase = "lobby"
            /\ timers'[c] = <<"mafia">>
         \/ /\ Len(timers[c]) = 1
            /\ timers'[c] = <<NextStage(timers[c][1])>>
         \/ /\ Len(timers[c]) = 1
            /\ timers[c][1] \in {"detective", "day"}
            /\ timers'[c] = <<>>
            /\ c \in ended']_vars

\* an action of a client that names room code c
NamedAction(c) ==
  \E s \in Sockets :
    \/ JoinRoom(s, c) \/ RequestLobby(s, c) \/ StartGame(s, c) \/ ChatMessage(s, c)
    \/ \E t \in AllTargets :
         MafiaChoose(s, c, t) \/ MedicChoose(s, c, t) \/ DetectiveChoose(s, c, t) \/ Vote(s, c, t)

\* C4: a step in which the win check returns a verdict broadcasts gameEnd with
\* the winner and a reveal that maps every player of the room to their role and
\* removes the room from the registry; from then on the room never returns to
\* the registry, no action that names its code changes the state, and no
\* further timer is scheduled for it.
C4_VerdictEndsRoom ==
  [][\A c \in Codes :
       /\ c \in ended' \ ended =>
            /\ c \notin rooms'
            /\ \E i \in DOMAIN out' :
                 /\ out'[i].ev = "gameEnd" /\ out'[i].to = c
                 /\ out'[i].data.winner \in {"town", "mafia"}
                 /\ DOMAIN out'[i].data.reveal = Ids(objs[c].players)
                 /\ \A j \in DOMAIN objs[c].players :
                      out'[i].data.reveal[objs[c].players[j].id].role = objs[c].players[j].role
       /\ c \in ended =>
            /\ c \notin rooms'
            /\ NamedAction(c) => UNCHANGED <<rooms, objs, timers, connected, ended>>
            /\ timers'[c] = timers[c] \/ (timers[c] # <<>> /\ timers'[c] = Tail(timers[c]))]_vars

RosterEvents == {"lobbyState", "updatePlayers", "joinedRoom", "roomCreated"}

\* C5: no message other than gameEnd and detectiveResult that a connection
\* receives carries the role of another player (roster messages are only sent
\* for rooms of the registry, which have had no gameEnd).
C5_RolesSecret ==
  \A i \in DOMAIN out :
    out[i].ev \in RosterEvents =>
      \A r \in out[i].rcpt, j \in DOMAIN out[i].data.players :
        out[i].data.players[j].id # r => out[i].data.players[j].role = NULL

\* C7: startGame sent by the host of a room with fewer than mafiaCount + 2
\* players sends an error to the caller and changes neither the room (no role,
\* still in the lobby) nor the timers.
C7_InsufficientPlayers ==
  [][\A s \in Sockets, c \in Codes :
       (/\ c \in rooms
        /\ objs[c].host = s
        /\ Len(objs[c].players) < objs[c].mafiaCount + 2
        /\ StartGame(s, c))
       => /\ UNCHANGED <<rooms, objs, timers>>
          /\ \E i \in DOMAIN out' : out'[i].ev = "errorMessage" /\ out'[i].to = s]_vars

------------------------------------------------------------------------------
(* Role assignment: rooms of up to five distinct players, any mafia count,  *)
(* a night after the start and a second startGame                           *)

AssignCounts == {0, 1, 2, 3}

\* the host sends startGame in the lobby, and again when the night is over
AssignMayStart(c) == timers[c] \in {<<>>, <<"day">>}

InitAssign ==
  /\ rooms = {}
  /\ objs = <<>>
  /\ timers = [c \in Codes |-> <<>>]
  /\ connected = Sockets
  /\ out = <<>>
  /\ ended = {}

NextAssign ==
  \/ \E s \in Sockets, m \in AssignCounts : Canonical(s, {}) /\ CreateRoom(s, m)
  \/ \E s \in Sockets, c \in Codes : FirstEntry(s, c) /\ JoinRoom(s, c)
  \/ \E s \in Sockets, c \in Codes : AssignMayStart(c) /\ StartGame(s, c)
  \/ \E c \in Codes : FireMafia(c)
  \/ \E c \in Codes : FireMedic(c)
  \/ \E c \in Codes : FireDetective(c)

SpecAssign == InitAssign /\ [][NextAssign]_vars

\* the last step was a successful startGame of room c
JustStarted(c) ==
  /\ Len(out) >= 2
  /\ out[1].ev = "lobbyState" /\ out[1].to = c
  /\ out[2].ev = "yourRole"

NumWithRole(players, role) == Cardinality({i \in DOMAIN players : players[i].role = role})

DistinctIds(players) == Cardinality(Ids(players)) = Len(players)

\* C6: right after a successful startGame of a room of N distinct players and
\* mafia count M with M + 2 <= N, exactly M players are mafia, one is medic,
\* one is detective, N - M - 2 are villagers, none is without a role and all
\* are alive.
C6_RoleComposition ==
  \A c \in rooms :
    LET ps == objs[c].players
        n == Len(ps)
        m == objs[c].mafiaCount
    IN  (JustStarted(c) /\ DistinctIds(ps) /\ m + 2 <= n) =>
          /\ NumWithRole(ps, "mafia") = m
          /\ NumWithRole(ps, "medic") = 1
          /\ NumWithRole(ps, "detective") = 1
          /\ NumWithRole(ps, "villager") = n - m - 2
          /\ NumWithRole(ps, NULL) = 0
          /\ \A i \in DOMAIN ps : ps[i].alive

\* a second startGame of a room of five with one mafia, sent during the day
\* that follows a night with a kill
C6_Witness ==
  \E c \in rooms :
    /\ JustStarted(c)
    /\ DistinctIds(objs[c].players)
    /\ Len(objs[c].players) = 5 /\ objs[c].mafiaCount = 1
    /\ Len(timers[c]) = 2

------------------------------------------------------------------------------
(* A game from the lobby to its verdict: one startGame, the night choices,  *)
(* a vote, disconnects at any time and the timer callbacks                  *)

\* what the clients submit
GameMafiaTargets == {"s2"}
GameMedicSaves == {"s2"}
GameVoters == {"s1"}
GameVoteTargets == {"s3"}

\* the host sends startGame once, in the lobby
InLobby(c) == c \in rooms => objs[c].phase = "lobby"

NextGame ==
  \/ \E s \in Clients, m \in MafiaCounts : Canonical(s, {}) /\ CreateRoom(s, m)
  \/ \E s \in Clients, c \in Codes : FirstEntry(s, c) /\ JoinRoom(s, c)
  \/ \E s \in Clients, c \in Codes : InLobby(c) /\ StartGame(s, c)
  \/ \E s \in Clients, c \in Codes, t \in GameMafiaTargets : MafiaChoose(s, c, t)
  \/ \E s \in Clients, c \in Codes, t \in GameMedicSaves : MedicChoose(s, c, t)
  \/ \E s \in GameVoters, c \in Codes, t \in GameVoteTargets : Vote(s, c, t)
  \/ \E s \in Clients : Disconnect(s)
  \/ \E c \in Codes : FireMafia(c)
  \/ \E c \in Codes : FireMedic(c)
  \/ \E c \in Codes : FireDetective(c)
  \/ \E c \in Codes : FireDay(c)

SpecGame == Init /\ [][NextGame]_vars

AliveMafia(players) ==
  Cardinality({i \in DOMAIN players : players[i].alive /\ players[i].role = "mafia"})

AliveOthers(players) ==
  Cardinality({i \in DOMAIN players : players[i].alive /\ players[i].role # "mafia"})

\* the winner announced to room c by the last step, "none" without a gameEnd
Announced(msgs, c) ==
  IF \E i \in DOMAIN msgs : msgs[i].ev = "gameEnd" /\ msgs[i].to = c
  THEN LET i == CHOOSE i \in DOMAIN msgs : msgs[i].ev = "gameEnd" /\ msgs[i].to = c
       IN  msgs[i].data.winner
  ELSE "none"

\* C8: when the night or the day of a room is resolved, the town is announced
\* as the winner iff no mafia is alive in the resulting roster, the mafia iff
\* at least one mafia is alive and the alive mafia are at least as many as the
\* alive others, and in every other case no winner is announced and the next
\* phase timer is scheduled.
C8_WinCheck ==
  [][\A c \in Codes :
       (FireDetective(c) \/ FireDay(c)) =>
         LET ps == objs'[c].players
             winner == Announced(out', c)
         IN  /\ winner = "town" <=> AliveMafia(ps) = 0
             /\ winner = "mafia" <=> (AliveMafia(ps) >= 1 /\ AliveMafia(ps) >= AliveOthers(ps))
             /\ winner = "none" <=> (AliveMafia(ps) >= 1 /\ AliveMafia(ps) < AliveOthers(ps))
             /\ winner = "none" => Len(timers'[c]) = Len(timers[c])
             /\ winner # "none" => Len(timers'[c]) = Len(timers[c]) - 1]_vars

\* a resolve whose roster has as many alive mafia as alive others: the mafia win
C8_Witness ==
  \E c \in Codes :
    /\ c \in ended
    /\ Announced(out, c) = "mafia"
    /\ AliveMafia(objs[c].players) = AliveOthers(objs[c].players)

------------------------------------------------------------------------------
(* The day vote: the first day of a game of four with one mafia; every      *)
(* client votes for a player, for an id that is no player or for nobody,    *)
(* and may vote again, until the day timer fires                            *)

TallyTargets == {NULL, "s1", "s2", "s3", Ghost}

\* the room when the first night of the game has been resolved: s1 created the
\* room with the default mafia count, s2, s3 and s4 joined, the shuffle made
\* s1 the mafia, s2 the medic and s3 the detective, nobody chose in the night
\* and the fallback target of the mafia callback was s4
TallyRoom ==
  [code |-> "R1", host |-> "s1",
   players |-> <<[id |-> "s1", name |-> UserName("s1"), alive |-> TRUE, role |-> "mafia"],
                 [id |-> "s2", name |-> UserName("s2"), alive |-> TRUE, role |-> "medic"],
                 [id |-> "s3", name |-> UserName("s3"), alive |-> TRUE, role |-> "detective"],
                 [id |-> "s4", name |-> UserName("s4"), alive |-> FALSE, role |-> "villager"]>>,
   mafiaCount |-> DEFAULTS_mafiaCount, phase |-> "day",
   mafiaTarget |-> "s4", medicSave |-> NULL, detectiveTarget |-> NULL, votes |-> <<>>]

\* the state the detective callback leaves at the start of that day
InitTally ==
  /\ rooms = {"R1"}
  /\ objs = [c \in {"R1"} |-> TallyRoom]
  /\ timers = [c \in Codes |-> <<"day">>]
  /\ connected = Clients
  /\ out = Stamp(<<Msg("nightResult", "R1",
                       [killedId |-> "s4", medicSaved |-> FALSE, killedName |-> UserName("s4")]),
                   Msg("playerKilled", "s4", [you |-> TRUE]),
                   PhaseStart(TallyRoom, "day")>>, TallyRoom.players, Clients)
  /\ ended = {}

\* the clients vote while the day timer pends
DayOpen(c) == c \in rooms /\ objs[c].phase = "day" /\ Pending(c, "day")

NextTally ==
  \/ \E s \in Clients, c \in Codes, t \in TallyTargets : DayOpen(c) /\ Vote(s, c, t)
  \/ \E c \in Codes : FireDay(c)

SpecTally == InitTally /\ [][NextTally]_vars

\* the number of ballots for target t
BallotCount(votes, t) == Cardinality({i \in DOMAIN votes : votes[i].target = t})

\* the targets with a non-null ballot
Voted(votes) == {votes[i].target : i \in DOMAIN votes} \ {NULL}

\* the targets whose ballot count is the maximum over all targets
Leaders(votes) ==
  {t \in Voted(votes) : \A u \in Voted(votes) : BallotCount(votes, u) <= BallotCount(votes, t)}

\* the voteResult payloads sent to room c
VoteResults(msgs, c) ==
  {msgs[i].data : i \in {j \in DOMAIN msgs : msgs[j].ev = "voteResult" /\ msgs[j].to = c}}

\* the day callback of room c lynches target t: the result names t and t is
\* dead afterwards; a target that is no player of the room has no effect
Lynches(c, t) ==
  IF t \in Ids(objs[c].players)
  THEN /\ VoteResults(out', c) = {[lynched |-> TRUE, reveal |-> NameOf(objs[c].players, t)]}
       /\ ~objs'[c].players[FindIdx(objs[c].players, t)].alive
  ELSE VoteResults(out', c) = {}

\* C9: a vote leaves exactly one ballot of the voter, with the target just
\* submitted, and no other ballot changes; the day callback ignores the null
\* ballots, lynches nobody iff there is no non-null ballot, and otherwise
\* lynches a target whose ballot count is the maximum over all targets.
C9_VoteTally ==
  [][\A c \in Codes :
       /\ \A s \in Sockets, t \in AllTargets :
            (c \in rooms /\ Vote(s, c, t)) =>
              LET before == objs[c].votes
                  after == objs'[c].votes
              IN  /\ Cardinality({i \in DOMAIN after : after[i].voter = s}) = 1
                  /\ \A i \in DOMAIN after : after[i].voter = s => after[i].target = t
                  /\ {before[i] : i \in {j \in DOMAIN before : before[j].voter # s}}
                       = {after[i] : i \in {j \in DOMAIN after : after[j].voter # s}}
       /\ FireDay(c) =>
            LET votes == objs[c].votes
            IN  IF Voted(votes) = {}
                THEN /\ VoteResults(out', c) = {[lynched |-> FALSE]}
                     /\ \A i \in DOMAIN objs[c].players :
                          objs'[c].players[i].alive = objs[c].players[i].alive
                ELSE \E t \in Leaders(votes) : Lynches(c, t)]_vars

\* the result announced by the last step names player t of room c
Names(c, t) ==
  /\ t \in Ids(objs[c].players)
  /\ VoteResults(out, c) = {[lynched |-> TRUE, reveal |-> NameOf(objs[c].players, t)]}

\* the day of a room has been resolved with four ballots, one of them null and
\* the others for two targets: the one with two ballots, which is not the
\* first target voted for, is lynched
C9_Witness ==
  \E c \in ended :
    LET votes == objs[c].votes
    IN  /\ Len(votes) = 4
        /\ BallotCount(votes, NULL) = 1
        /\ Cardinality(Voted(votes)) = 2
        /\ \E t \in Leaders(votes) :
             /\ Leaders(votes) = {t}
             /\ Names(c, t)
             /\ \E i \in DOMAIN votes :
                  votes[i].target \notin {NULL, t} /\ \A j \in DOMAIN votes : votes[j].target = t => i < j

\* the position of the first ballot for target t
FirstSeen(votes, t) ==
  CHOOSE i \in DOMAIN votes :
    votes[i].target = t /\ \A j \in DOMAIN votes : votes[j].target = t => i <= j

\* the position of the ballot that brings target t to n ballots
ReachIdx(votes, t, n) ==
  CHOOSE i \in DOMAIN votes :
    votes[i].target = t /\ BallotCount(SubSeq(votes, 1, i), t) = n

\* the tied target that is the first to reach the maximum count during a pass
\* over the ballots
FirstToReachMax(votes) ==
  CHOOSE t \in Leaders(votes) :
    \A u \in Leaders(votes) :
      ReachIdx(votes, t, BallotCount(votes, t)) <= ReachIdx(votes, u, BallotCount(votes, u))

\* the tied target whose first ballot is the earliest
FirstSeenLeader(votes) ==
  CHOOSE t \in Leaders(votes) :
    \A u \in Leaders(votes) : FirstSeen(votes, t) <= FirstSeen(votes, u)

Tied(votes) == Cardinality(Leaders(votes)) >= 2

\* C10 (as stated): when several targets tie for the highest ballot count, the
\* day callback lynches the tied target that is the first to reach that count
\* during a pass over the ballots in insertion order.
C10_FirstToReachMax ==
  [][\A c \in Codes :
       (FireDay(c) /\ Tied(objs[c].votes)) => Lynches(c, FirstToReachMax(objs[c].votes))]_vars

\* C10 (amended): when several targets tie for the highest ballot count, the
\* day callback lynches the tied target whose first ballot is the earliest in
\* the insertion order of the ballots; nothing else than the ballots and their
\* order decides.
C10_FirstSeenAmongTied ==
  [][\A c \in Codes :
       (FireDay(c) /\ Tied(objs[c].votes)) => Lynches(c, FirstSeenLeader(objs[c].votes))]_vars

\* the day of a room has been resolved on a tie in which the target voted for
\* first is not the first to reach the highest count: the former is lynched
C10_Witness ==
  \E c \in ended :
    LET votes == objs[c].votes
    IN  /\ Tied(votes)
        /\ FirstSeenLeader(votes) # FirstToReachMax(votes)
        /\ Names(c, FirstSeenLeader(votes))

------------------------------------------------------------------------------
(* Claims about the night, checked under SpecGame *)

\* the alive flags of room c are the same before and after the step
AliveUnchanged(c) ==
  /\ Len(objs'[c].players) = Len(objs[c].players)
  /\ \A i \in DOMAIN objs[c].players : objs'[c].players[i].alive = objs[c].players[i].alive

\* the nightResult payloads sent to room c
NightResults(msgs, c) ==
  {msgs[i].data : i \in {j \in DOMAIN msgs : msgs[j].ev = "nightResult" /\ msgs[j].to = c}}

\* C11: when the night of a room is resolved, the player recorded as
\* mafiaTarget is dead afterwards if mafiaTarget is non-null and medicSave
\* differs from it (a null medicSave included) and no other alive flag changes;
\* otherwise no alive flag changes; the nightResult reports medicSaved = true
\* iff medicSave is non-null and equals mafiaTarget.
C11_NightKill ==
  [][\A c \in Codes :
       FireDetective(c) =>
         LET room == objs[c]
             t == room.mafiaTarget
             kill == t # NULL /\ room.medicSave # t
             saved == room.medicSave # NULL /\ room.medicSave = t
         IN  /\ Len(objs'[c].players) = Len(room.players)
             /\ \A i \in DOMAIN room.players :
                  objs'[c].players[i].alive =
                    IF kill /\ i = FindIdx(room.players, t) THEN FALSE ELSE room.players[i].alive
             /\ saved => AliveUnchanged(c)
             /\ \A d \in NightResults(out', c) : d.medicSaved = saved
             /\ NightResults(out', c) # {}]_vars

\* a night has been resolved in which the medic saved the target of the mafia:
\* the result reports the save and every player is alive
C11_Witness ==
  \E c \in Codes :
    /\ c \in DOMAIN objs
    /\ \E d \in NightResults(out, c) : d.medicSaved /\ d.killedId = NULL
    /\ objs[c].medicSave # NULL /\ objs[c].medicSave = objs[c].mafiaTarget
    /\ Len(objs[c].players) >= 4
    /\ \A i \in DOMAIN objs[c].players : objs[c].players[i].alive

\* the ids of the alive players of the room that are not mafia
AliveTown(room) ==
  {room.players[i].id : i \in {j \in DOMAIN room.players :
                                 room.players[j].alive /\ room.players[j].role # "mafia"}}

\* C12: when the mafia timer of a room fires with no target recorded, the
\* target becomes an alive player that is not mafia if there is one and stays
\* null if there is none; a recorded target is left as it is; a night resolved
\* with a null target kills nobody and reports no victim.
C12_FallbackTarget ==
  [][\A c \in Codes :
       /\ FireMafia(c) =>
            /\ objs[c].mafiaTarget # NULL => objs'[c].mafiaTarget = objs[c].mafiaTarget
            /\ (objs[c].mafiaTarget = NULL /\ AliveTown(objs[c]) # {})
                 => objs'[c].mafiaTarget \in AliveTown(objs[c])
            /\ (objs[c].mafiaTarget = NULL /\ AliveTown(objs[c]) = {})
                 => objs'[c].mafiaTarget = NULL
            /\ objs'[c].players = objs[c].players
       /\ (FireDetective(c) /\ objs[c].mafiaTarget = NULL) =>
            /\ AliveUnchanged(c)
            /\ \A d \in NightResults(out', c) : d.killedId = NULL]_vars

\* the mafia timer has just fired and the target is one no client submitted:
\* the fallback chose an alive player that is not mafia
C12_Witness ==
  \E c \in rooms :
    /\ Len(out) = 1 /\ out[1].ev = "phaseMessage" /\ out[1].data.phase = "medic"
    /\ objs[c].mafiaTarget \notin GameMafiaTargets \cup {NULL}
    /\ objs[c].mafiaTarget \in AliveTown(objs[c])

------------------------------------------------------------------------------
(* Claims about the players of a room *)

\* the player of the room with the id (the first one)
PlayerOf(room, id) == room.players[FindIdx(room.players, id)]

\* C13: in every step, a player that stays in a room keeps a role once it is
\* set, and stays dead once dead.
C13_RoleAndDeathStable ==
  [][\A c \in Codes :
       (c \in DOMAIN objs /\ c \in DOMAIN objs') =>
         \A id \in Ids(objs[c].players) \cap Ids(objs'[c].players) :
           /\ PlayerOf(objs[c], id).role # NULL
                => PlayerOf(objs'[c], id).role = PlayerOf(objs[c], id).role
           /\ ~PlayerOf(objs[c], id).alive => ~PlayerOf(objs'[c], id).alive]_vars

GameRoles == {"mafia", "medic", "detective", "villager"}

\* C14: in every room of the registry, no player has a role while the room is
\* in the lobby, and every player has one of the four roles once the game has
\* started.
C14_RolesMatchPhase ==
  \A c \in rooms :
    \A i \in DOMAIN objs[c].players :
      IF objs[c].phase = "lobby"
      THEN objs[c].players[i].role = NULL
      ELSE objs[c].players[i].role \in GameRoles

------------------------------------------------------------------------------
(* The lobby: any connection creates the room, any connection joins it, also *)
(* one that is in it already, and any connection disconnects                 *)

\* the clients join while the room has fewer than MaxRoster players
RoomOpen(c) == c \in rooms => Len(objs[c].players) < MaxRoster

NextJoin ==
  \/ \E s \in Clients, m \in MafiaCounts : CreateRoom(s, m)
  \/ \E s \in Clients, c \in Codes : RoomOpen(c) /\ JoinRoom(s, c)
  \/ \E s \in Clients : Disconnect(s)

SpecJoin == Init /\ [][NextJoin]_vars

\* C15: in every room the ids of the players are pairwise distinct.
C15_DistinctIds ==
  \A c \in rooms : DistinctIds(objs[c].players)

\* the players without the first entry of connection s
Without(players, s) ==
  LET k == FindIdx(players, s)
  IN  IF k = 0 THEN players
      ELSE SubSeq(players, 1, k - 1) \o SubSeq(players, k + 1, Len(players))

------------------------------------------------------------------------------
(* Claims about rejected requests and the roster messages *)

\* the step sends an errorMessage to connection s and changes no room
RejectedWithError(s) ==
  /\ \E i \in DOMAIN out' : out'[i].ev = "errorMessage" /\ out'[i].to = s
  /\ UNCHANGED <<rooms, objs, timers>>

\* C17: joinRoom with an unknown code or on a full room, and startGame with an
\* unknown code, by a connection that is not the host, or below minPlayers,
\* send an errorMessage to the caller and change neither the registry nor a
\* room.
C17_RejectionsReported ==
  [][\A s \in Sockets, c \in Codes :
       /\ (JoinRoom(s, c) /\ (c \notin rooms \/ Len(objs[c].players) >= DEFAULTS_maxPlayers))
            => RejectedWithError(s)
       /\ (StartGame(s, c) /\ (\/ c \notin rooms
                                \/ objs[c].host # s
                                \/ Len(objs[c].players) < DEFAULTS_minPlayers))
            => RejectedWithError(s)]_vars

\* the roster messages sent to room c
RosterUpdates(msgs, c) ==
  {msgs[i].data : i \in {j \in DOMAIN msgs : msgs[j].ev \in RosterEvents /\ msgs[j].to = c}}

\* C18: when a disconnect takes a player out of a room and the room stays in
\* the registry, a roster message for the room carries the player list and the
\* host the room has after the step; when the room leaves the registry, no
\* roster message is sent for it.
C18_RosterAfterDisconnect ==
  [][\A c \in rooms, s \in Sockets :
       (Disconnect(s) /\ s \in Ids(objs[c].players)) =>
         IF c \in rooms'
         THEN \E d \in RosterUpdates(out', c) :
                d.players = objs'[c].players /\ d.host = objs'[c].host
         ELSE RosterUpdates(out', c) = {}]_vars

------------------------------------------------------------------------------
(* Claims about the day and the choices of the night *)

\* the positions in msgs of the messages of event ev sent to room c
Positions(msgs, ev, c) == {i \in DOMAIN msgs : msgs[i].ev = ev /\ msgs[i].to = c}

\* C19: the day callback of a room sends exactly one voteResult, before any
\* gameEnd: with lynched = false when no ballot names a target, and with
\* lynched = true when one does, and then a target with the highest ballot
\* count is dead afterwards if it is a player of the room.
C19_OneVoteResult ==
  [][\A c \in Codes :
       FireDay(c) =>
         LET votes == objs[c].votes
             vr == Positions(out', "voteResult", c)
         IN  /\ Cardinality(vr) = 1
             /\ \A i \in vr, j \in Positions(out', "gameEnd", c) : i < j
             /\ \A i \in vr : out'[i].data.lynched = (Voted(votes) # {})
             /\ Voted(votes) # {} =>
                  \E t \in Leaders(votes) :
                    t \in Ids(objs[c].players) => Lynches(c, t)]_vars

(* The night choices: four connections play and a fifth stays outside; any  *)
(* of the five submits any of the three choices at any time                 *)

ChooseTargets == {"s1", "s2"}

NextChoose ==
  \/ \E s \in Clients : Canonical(s, {}) /\ CreateRoom(s, DEFAULTS_mafiaCount)
  \/ \E s \in Clients, c \in Codes : FirstEntry(s, c) /\ JoinRoom(s, c)
  \/ \E s \in Clients, c \in Codes : InLobby(c) /\ StartGame(s, c)
  \/ \E s \in Sockets, c \in Codes, t \in ChooseTargets : MafiaChoose(s, c, t)
  \/ \E s \in Sockets, c \in Codes, t \in ChooseTargets : MedicChoose(s, c, t)
  \/ \E s \in Sockets, c \in Codes, t \in ChooseTargets : DetectiveChoose(s, c, t)
  \/ \E c \in Codes : FireMafia(c)
  \/ \E c \in Codes : FireMedic(c)
  \/ \E c \in Codes : FireDetective(c)

SpecChoose == InitAssign /\ [][NextChoose]_vars

\* connection s is a player of the room with the role
HasRole(room, s, role) ==
  \E i \in DOMAIN room.players : room.players[i].id = s /\ room.players[i].role = role

\* the step emits nothing and changes nothing
Silent == out' = <<>> /\ UNCHANGED <<rooms, objs, timers, connected, ended>>

\* the events of the messages of the step, with their addressees
Emitted == [i \in DOMAIN out' |-> <<out'[i].ev, out'[i].to>>]

\* C20: a mafiaChoose, medicChoose or detectiveChoose of a connection that is
\* no player of the room or has another role emits nothing and changes
\* nothing; one of a player with the matching role writes the submitted target
\* into its own choice field and changes nothing else of the room, the
\* registry or the timers.
C20_ChoiceByRole ==
  [][\A s \in Sockets, c \in rooms, t \in ChooseTargets :
       /\ MafiaChoose(s, c, t) =>
            IF HasRole(objs[c], s, "mafia")
            THEN /\ objs' = [objs EXCEPT ![c].mafiaTarget = t]
                 /\ Emitted = <<(<<"phaseMessage", c>>)>>
                 /\ UNCHANGED <<rooms, timers, connected, ended>>
            ELSE Silent
       /\ MedicChoose(s, c, t) =>
            IF HasRole(objs[c], s, "medic")
            THEN /\ objs' = [objs EXCEPT ![c].medicSave = t]
                 /\ Emitted = <<(<<"phaseMessage", c>>)>>
                 /\ UNCHANGED <<rooms, timers, connected, ended>>
            ELSE Silent
       /\ DetectiveChoose(s, c, t) =>
            IF HasRole(objs[c], s, "detective")
            THEN /\ objs' = [objs EXCEPT ![c].detectiveTarget = t]
                 /\ Emitted = <<(<<"detectiveResult", s>>), (<<"phaseMessage", c>>)>>
                 /\ UNCHANGED <<rooms, timers, connected, ended>>
            ELSE Silent]_vars

\* during a night in which the three choices are recorded, the last step was a
\* rejected submission: nothing was emitted
C20_Witness ==
  \E c \in rooms :
    /\ objs[c].phase = "night" /\ timers[c] # <<>>
    /\ out = <<>>
    /\ objs[c].mafiaTarget \in ChooseTargets
    /\ objs[c].medicSave \in ChooseTargets
    /\ objs[c].detectiveTarget \in ChooseTargets

====
